---- MODULE Spec2Model ----
(***************************************************************************)
(* AgriGuard: geocode -> forecast metrics -> model-based advice, and the   *)
(* outbound bulk SMS loop.  Numbers are integers in hundredths of a unit   *)
(* (20.00 C is 2000, soil moisture 0.10 is 10, 12.00 mm is 1200, 3.12      *)
(* degrees is 312).  A Python optional is a sequence: None is <<>> and a   *)
(* present value v is <<v>>.  A text is a sequence of character tokens.    *)
(***************************************************************************)
EXTENDS Integers, Sequences, FiniteSets, TLC

VARIABLES app, appA, appB, reply, parse_pc, parsed, bulk

vars == <<app, appA, appB, reply, parse_pc, parsed, bulk>>

None == <<>>
Some(v) == <<v>>
IsNone(o) == Len(o) = 0
Val(o) == o[1]

----------------------------------------------------------------------------
(* Bounds of the model *)

\* hourly samples per series in a forecast response (24 in production)
NumSamples == 2
\* quarter-hour samples in a sub-hourly response
MaxQuarters == 5
\* characters in a model reply
MaxReplyLen == 4
\* recipients in a bulk send
MaxRecipients == 3

TempVals == {2000, 3300}
SoilVals == {0, 10, 50}
PrecipVals == {0, 200, 1200}
QuarterVals == {None, Some(10), Some(30)}

----------------------------------------------------------------------------
(* Arithmetic over series *)

RECURSIVE SumSeq(_)
SumSeq(s) == IF s = <<>> THEN 0 ELSE Head(s) + SumSeq(Tail(s))

RECURSIVE MinSeq(_)
MinSeq(s) ==
    IF Len(s) = 1 THEN s[1]
    ELSE LET m == MinSeq(Tail(s)) IN IF s[1] < m THEN s[1] ELSE m

RECURSIVE MaxSeq(_)
MaxSeq(s) ==
    IF Len(s) = 1 THEN s[1]
    ELSE LET m == MaxSeq(Tail(s)) IN IF s[1] > m THEN s[1] ELSE m

\* format(x, ".1f") of x hundredths: the tenths, rounded half to even
Fmt1(x) ==
    LET q == x \div 10
        r == x % 10
        t == IF r > 5 \/ (r = 5 /\ q % 2 = 1) THEN q + 1 ELSE q
    IN  [whole |-> t \div 10, frac |-> t % 10, digits |-> 1]

\* format(num/den, ".1f") of a mean kept as an exact fraction of hundredths
Fmt1Frac(f) ==
    LET d == 10 * f.den
        q == f.num \div d
        r == f.num % d
        t == IF 2 * r > d \/ (2 * r = d /\ q % 2 = 1) THEN q + 1 ELSE q
    IN  [whole |-> t \div 10, frac |-> t % 10, digits |-> 1]

\* format(x, ".2f") of x hundredths
Fmt2(x) == [whole |-> x \div 100, frac |-> x % 100, digits |-> 2]

----------------------------------------------------------------------------
(* weather.py *)

Series(vals) == [1..NumSamples -> vals]

Var(name, values) == [name |-> name, values |-> values]

\* The variable lists a forecast response can carry, in request order.
VarLists ==
    {<<>>}
    \cup {<<Var("temperature_2m", t)>> : t \in Series(TempVals)}
    \cup {<<Var("temperature_2m", t), Var("soil_moisture_3_to_9cm", s)>> :
            t \in Series(TempVals), s \in Series(SoilVals)}
    \cup {<<Var("temperature_2m", t), Var("precipitation", p)>> :
            t \in Series(TempVals), p \in Series(PrecipVals)}
    \cup {<<Var("temperature_2m", t), Var("soil_moisture_3_to_9cm", s),
            Var("precipitation", p)>> :
            t \in Series(TempVals), s \in Series(SoilVals),
            p \in Series(PrecipVals)}

\* weather_api either raises or returns the hourly block of the response
HourlyResponses ==
    {[ok |-> FALSE, vars |-> <<>>]} \cup {[ok |-> TRUE, vars |-> v] : v \in VarLists}

\* lines 24-53: the five metrics derived from the hourly block.  Variables
\* are taken by position: Variables(1) is read as soil moisture and
\* Variables(2) as precipitation.  exc is an exception raised inside the try.
HourlyMetrics(resp) ==
    IF ~resp.ok \/ Len(resp.vars) = 0
    THEN [exc |-> TRUE, val |-> None]
    ELSE
      LET n_var == Len(resp.vars)
          temperature == resp.vars[1].values
          min_soil_raw == IF n_var > 1 THEN Some(MinSeq(resp.vars[2].values))
                          ELSE None
          min_soil_for_prompt == IF ~IsNone(min_soil_raw) THEN Val(min_soil_raw)
                                 ELSE 0
      IN  [exc |-> FALSE,
           val |-> Some([avg_temp |-> [num |-> SumSeq(temperature),
                                       den |-> Len(temperature)],
                         min_temp |-> MinSeq(temperature),
                         max_temp |-> MaxSeq(temperature),
                         total_rain |-> IF n_var > 2
                                        THEN SumSeq(resp.vars[3].values)
                                        ELSE 0,
                         min_soil |-> min_soil_for_prompt])]

RECURSIVE SeqsUpTo(_, _)
SeqsUpTo(S, n) ==
    IF n = 0 THEN {<<>>}
    ELSE LET shorter == SeqsUpTo(S, n - 1)
         IN  shorter \cup {Append(s, x) : s \in {t \in shorter : Len(t) = n - 1},
                                           x \in S}

\* The sub-hourly request raises, or its JSON has no minutely_15 block, or
\* the block has no precipitation array, or it has one.  A sample is a
\* number or a JSON null.
SubResponses ==
    {[kind |-> k, precipitation |-> <<>>] : k \in {"raise", "no_block", "no_series"}}
    \cup {[kind |-> "series", precipitation |-> q] :
            q \in SeqsUpTo(QuarterVals, MaxQuarters)}

\* lines 69-89
RainNextHour(sub) ==
    IF sub.kind # "series" THEN None
    ELSE LET precip == sub.precipitation IN
         IF Len(precip) >= 4
         THEN IF \E i \in 1..4 : IsNone(precip[i])
              THEN None
              ELSE Some(SumSeq([i \in 1..4 |-> Val(precip[i])]))
         ELSE None

\* lines 57-64
MetricsRecord(h, rain_next_hour_mm) ==
    [avg_temp |-> h.avg_temp,
     min_temp |-> h.min_temp,
     max_temp |-> h.max_temp,
     total_rain |-> h.total_rain,
     min_soil |-> h.min_soil,
     rain_next_hour_mm |-> rain_next_hour_mm]

\* the except clause left out: the exception reaches the caller
FetchCatchPropagates(h) == h

\* lines 23, 65-66: any exception of the body becomes None
FetchCatch(h) == IF h.exc THEN [exc |-> FALSE, val |-> None] ELSE h

\* lines 8-66
FetchForecastMetrics(lat, lon, hourly, sub) ==
    LET h == FetchCatch(HourlyMetrics(hourly)) IN
    IF h.exc THEN h
    ELSE IF IsNone(h.val) THEN h
    ELSE [exc |-> FALSE, val |-> Some(MetricsRecord(Val(h.val), RainNextHour(sub)))]

----------------------------------------------------------------------------
(* advice.py: reply parsing *)

Whitespace == {" ", "\n"}
Digits == {"0", "1", "2", "3", "4", "5", "6", "7", "8", "9"}
\* the class without the closing parenthesis
BulletClassNoParen == Whitespace \cup {"-", "*", "BULLET", "."} \cup Digits

\* the character class of the regular expression on line 52; BULLET is U+2022
BulletClass == Whitespace \cup {"-", "*", "BULLET", ".", ")"} \cup Digits

\* the characters replies are drawn from; "a" is a letter
Alphabet == {" ", "\n", "-", "*", "BULLET", "1", ".", ")", "a"}

IsSpace(c) == c \in Whitespace

RECURSIVE LStrip(_)
LStrip(s) == IF s # <<>> /\ IsSpace(Head(s)) THEN LStrip(Tail(s)) ELSE s

RECURSIVE RStrip(_)
RStrip(s) ==
    IF s # <<>> /\ IsSpace(s[Len(s)]) THEN RStrip(SubSeq(s, 1, Len(s) - 1)) ELSE s

\* str.strip()
Strip(s) == RStrip(LStrip(s))

RECURSIVE SplitAcc(_, _, _)
SplitAcc(s, cur, acc) ==
    IF s = <<>> THEN (IF cur = <<>> THEN acc ELSE Append(acc, cur))
    ELSE IF Head(s) = "\n" THEN SplitAcc(Tail(s), <<>>, Append(acc, cur))
    ELSE SplitAcc(Tail(s), Append(cur, Head(s)), acc)

\* str.splitlines()
SplitLines(s) == SplitAcc(s, <<>>, <<>>)

\* re.sub(r"^[\s\-*•\d.)]+", "", line)
RECURSIVE ReSubLeading(_)
ReSubLeading(line) ==
    IF line # <<>> /\ Head(line) \in BulletClass THEN ReSubLeading(Tail(line))
    ELSE line

NonEmpty(l) == l # <<>>
NonBlank(l) == Strip(l) # <<>>

\* lines 51-55
CleanLines(text) ==
    LET kept == SelectSeq(SplitLines(Strip(text)), NonBlank)
    IN  [i \in 1..Len(kept) |-> Strip(ReSubLeading(kept[i]))]

\* line 56
ParseAdvice(text) == SelectSeq(CleanLines(text), NonEmpty)

----------------------------------------------------------------------------
(* advice.py: get_advice *)

EnvVals == {None, Some(""), Some("hf_tok")}
Environments ==
    {[HF_TOKEN |-> a, HUGGING_FACE_HUB_TOKEN |-> b] :
        a \in EnvVals, b \in {None, Some("hf_tok")}}

ErrorTexts == {"", "429 quota exceeded"}

\* replies the inference provider returns in the pipeline runs
SampleReplies ==
    { <<>>,
      <<" ", "\n">>,
      <<"-", "\n", "*", " ", "1", ".">>,
      <<"-", " ", "a">>,
      <<"1", ")", " ", "a", "\n", "\n", "BULLET", " ", "a", " ", "a">>,
      <<"a", "\n", "a", "\n", "a">>,
      <<"a", "\n", "a", "\n", "a", "\n", "a", "\n", "a", "\n", "a">> }

\* the chat completion raises with some error text, or returns a message
\* whose content is None or a text
InferOutcomes ==
    {[kind |-> "raise", msg |-> m, content |-> None] : m \in ErrorTexts}
    \cup {[kind |-> "ok", msg |-> "", content |-> None]}
    \cup {[kind |-> "ok", msg |-> "", content |-> Some(t)] : t \in SampleReplies}

\* line 19: os.environ.get(A) or os.environ.get(B)
Token(env) ==
    IF ~IsNone(env.HF_TOKEN) /\ Val(env.HF_TOKEN) # "" THEN env.HF_TOKEN
    ELSE env.HUGGING_FACE_HUB_TOKEN

\* line 20: not token
NoToken(env) == IsNone(Token(env)) \/ Val(Token(env)) = ""

\* lines 23-38: the figures the prompt shows
BuildPrompt(metrics, location_name) ==
    [location |-> location_name,
     min_temp |-> Fmt1(metrics.min_temp),
     max_temp |-> Fmt1(metrics.max_temp),
     avg_temp |-> Fmt1Frac(metrics.avg_temp),
     total_rain |-> Fmt1(metrics.total_rain),
     rain_1h_line |-> IF ~IsNone(metrics.rain_next_hour_mm)
                      THEN Some(Fmt1(Val(metrics.rain_next_hour_mm)))
                      ELSE None,
     min_soil |-> Fmt2(metrics.min_soil)]

AdviceResult(advice, api_error, prompt) ==
    [exc |-> FALSE, advice |-> advice, api_error |-> api_error, prompt |-> prompt]

\* lines 48-61: the reply turned into the returned pair
ReplyOutcome(content, prompt) ==
    IF IsNone(content) \/ Val(content) = <<>>
    THEN AdviceResult(None, Some("Model returned empty response"), prompt)
    ELSE LET advice == ParseAdvice(Val(content)) IN
         IF advice # <<>> THEN AdviceResult(Some(advice), None, prompt)
         ELSE AdviceResult(None, Some("Model returned no parseable advice"), prompt)

\* lines 62-63
InferCatch(msg, prompt) == AdviceResult(None, Some(msg), prompt)

\* lines 9-63
GetAdvice(metrics, location_name, env, infer) ==
    IF NoToken(env) THEN AdviceResult(None, None, None)
    ELSE LET prompt == Some(BuildPrompt(metrics, location_name)) IN
         IF infer.kind = "raise" THEN InferCatch(infer.msg, prompt)
         ELSE ReplyOutcome(infer.content, prompt)

----------------------------------------------------------------------------
(* geocode.py *)

\* the search request raises, or the JSON reports an error, or has no
\* results, or has a first result (with or without its name and country)
GeoResponses ==
    {[kind |-> k, named |-> FALSE, lat |-> None, lon |-> None] :
        k \in {"raise", "error", "empty"}}
    \cup {[kind |-> "ok", named |-> n, lat |-> Some(312), lon |-> Some(3560)] :
            n \in BOOLEAN}

\* lines 6-29, verbose left at its default True
Geocode(city_name, geo) ==
    IF geo.kind = "ok" /\ geo.named
    THEN [lat |-> geo.lat, lon |-> geo.lon]
    ELSE [lat |-> None, lon |-> None]

----------------------------------------------------------------------------
(* agriguard.py *)

CityVals == {None, Some(""), Some("Lodwar")}
LatitudeVals == {None, Some(312), Some(9100)}
LongitudeVals == {None, Some(3560)}

\* a conversion that drops the fraction of a degree
FloatTruncates(x) == (x \div 100) * 100

\* float(x) of a number keeps its value
Float(x) == x

CityName(city) ==
    [kind |-> "city", city |-> city, lat |-> Fmt2(0), lon |-> Fmt2(0)]
CoordsName(lat, lon) ==
    [kind |-> "coords", city |-> "", lat |-> Fmt2(lat), lon |-> Fmt2(lon)]
NoName == [kind |-> "none", city |-> "", lat |-> Fmt2(0), lon |-> Fmt2(0)]

Call(fn, lat, lon, metrics, name) ==
    [fn |-> fn, lat |-> lat, lon |-> lon, metrics |-> metrics, name |-> name]

Line(kind, text, msg) == [kind |-> kind, text |-> text, msg |-> msg]

NoEnv == [HF_TOKEN |-> None, HUGGING_FACE_HUB_TOKEN |-> None]
NoInfer == [kind |-> "none", msg |-> "", content |-> None]

NoGiven == [latitude |-> None, longitude |-> None]
\* what the last forecast response held: whether it arrived, its variables
NoResp == [ok |-> FALSE, names |-> <<>>]
RespShape(hourly) ==
    [ok |-> hourly.ok, names |-> [i \in 1..Len(hourly.vars) |-> hourly.vars[i].name]]

\* the last sub-hourly response, and the five figures held when it was asked for
NoSub == [resp |-> [kind |-> "none", precipitation |-> <<>>], primary |-> None]

\* an object not yet constructed
NewApp ==
    [pc |-> "new", via |-> "none", lat |-> None, lon |-> None,
     display_name |-> NoName, locals |-> None, metrics |-> None,
     advice |-> None, api_error |-> None, prompt |-> None, result |-> <<>>,
     calls |-> <<>>, given |-> NoGiven, resp |-> NoResp, env |-> NoEnv,
     infer |-> NoInfer, sub |-> NoSub]

\* lines 13-30: exc is the ValueError of line 30
Ctor(city_name, latitude, longitude, geo) ==
    IF ~IsNone(latitude) /\ ~IsNone(longitude)
    THEN [exc |-> FALSE, via |-> "explicit",
          lat |-> Some(Float(Val(latitude))), lon |-> Some(Float(Val(longitude))),
          display_name |-> CoordsName(Float(Val(latitude)), Float(Val(longitude))),
          calls |-> <<>>,
          given |-> [latitude |-> latitude, longitude |-> longitude]]
    ELSE IF ~IsNone(city_name) /\ Val(city_name) # ""
    THEN LET c == Geocode(Val(city_name), geo) IN
         [exc |-> FALSE, via |-> "city", lat |-> c.lat, lon |-> c.lon,
          display_name |-> CityName(Val(city_name)),
          calls |-> <<Call("geocode", None, None, None, CityName(Val(city_name)))>>,
          given |-> NoGiven]
    ELSE [exc |-> TRUE, via |-> "none", lat |-> None, lon |-> None,
          display_name |-> NoName, calls |-> <<>>, given |-> NoGiven]

Constructed(c) ==
    IF c.exc THEN [NewApp EXCEPT !.pc = "ctor_raised"]
    ELSE [NewApp EXCEPT !.pc = "call", !.via = c.via, !.lat = c.lat, !.lon = c.lon,
                        !.display_name = c.display_name, !.calls = c.calls,
                        !.given = c.given]

\* lines 34-35
StepCheck(g) ==
    IF IsNone(g.lat)
    THEN [g EXCEPT !.pc = "done", !.result = <<Line("location_error", <<>>, "")>>]
    ELSE [g EXCEPT !.pc = "fetch"]

\* line 37 into weather.py lines 23-53, and lines 38-39 when it fails
StepHourly(g, hourly) ==
    LET h == FetchCatch(HourlyMetrics(hourly))
        logged == [g EXCEPT !.calls = Append(@, Call("fetch_forecast_metrics",
                                                     g.lat, g.lon, None, NoName)),
                            !.resp = RespShape(hourly)]
    IN  IF h.exc THEN [logged EXCEPT !.pc = "raised"]
        ELSE IF IsNone(h.val)
        THEN [logged EXCEPT !.pc = "done",
                            !.result = <<Line("forecast_unavailable", <<>>, "")>>]
        ELSE [logged EXCEPT !.pc = "sub", !.locals = h.val]

\* the five hourly figures handed on without the next-hour figure
StepSubPartial(g, sub) ==
    [g EXCEPT !.pc = "advise", !.metrics = g.locals]

\* _rain_next_hour without its try: a failed request is caught by the outer
\* except of fetch_forecast_metrics, which then returns None
StepSubUncaught(g, sub) ==
    IF sub.kind = "raise"
    THEN [g EXCEPT !.pc = "done", !.locals = None,
                   !.result = <<Line("forecast_unavailable", <<>>, "")>>]
    ELSE [g EXCEPT !.pc = "advise", !.locals = None,
                   !.metrics = Some(MetricsRecord(Val(g.locals), RainNextHour(sub)))]

\* weather.py lines 55-64: the record is assembled and returned
StepSub(g, sub) ==
    [g EXCEPT !.pc = "advise", !.locals = None,
              !.metrics = Some(MetricsRecord(Val(g.locals), RainNextHour(sub)))]

\* line 41
StepAdvise(g, env, infer) ==
    LET r == GetAdvice(Val(g.metrics), g.display_name, env, infer)
        logged == [g EXCEPT !.calls = Append(@, Call("get_advice", None, None,
                                                     g.metrics, g.display_name)),
                            !.env = env,
                            !.infer = IF NoToken(env) THEN NoInfer ELSE infer]
    IN  IF r.exc THEN [logged EXCEPT !.pc = "raised"]
        ELSE [logged EXCEPT !.pc = "return", !.advice = r.advice,
                            !.api_error = r.api_error, !.prompt = r.prompt]

AdviceLines(advice) == [i \in 1..Len(advice) |-> Line("advice", advice[i], "")]

\* lines 42-48
ReturnLines(advice, api_error) ==
    IF ~IsNone(advice) THEN AdviceLines(Val(advice))
    ELSE IF ~IsNone(api_error) /\ Val(api_error) # ""
    THEN <<Line("ai_unavailable", <<>>, Val(api_error))>>
    ELSE <<Line("set_token_hint", <<>>, "")>>

StepReturn(g) ==
    [g EXCEPT !.pc = "done", !.result = ReturnLines(g.advice, g.api_error)]

----------------------------------------------------------------------------
(* One AgriGuard object: construction, then get_ai_agri_advice *)

IdleBulk ==
    [pc |-> "idle", numbers |-> <<>>, i |-> 0, results |-> <<>>,
     attempts |-> <<>>, ret |-> None, time_delay |-> 0, slept |-> 0]

Init ==
    /\ app = NewApp
    /\ appA = NewApp
    /\ appB = NewApp
    /\ reply = <<>>
    /\ parse_pc = "idle"
    /\ parsed = <<>>
    /\ bulk = IdleBulk

others == <<appA, appB, reply, parse_pc, parsed, bulk>>

Construct ==
    /\ app.pc = "new"
    /\ \E city_name \in CityVals, latitude \in LatitudeVals,
          longitude \in LongitudeVals, geo \in GeoResponses :
         app' = Constructed(Ctor(city_name, latitude, longitude, geo))
    /\ UNCHANGED others

CheckLocation ==
    /\ app.pc = "call"
    /\ app' = StepCheck(app)
    /\ UNCHANGED others

FetchHourly ==
    /\ app.pc = "fetch"
    /\ \E hourly \in HourlyResponses : app' = StepHourly(app, hourly)
    /\ UNCHANGED others

FetchSubHourly ==
    /\ app.pc = "sub"
    /\ \E sub \in SubResponses : app' = StepSub(app, sub)
    /\ UNCHANGED others

Advise ==
    /\ app.pc = "advise"
    /\ \E env \in Environments, infer \in InferOutcomes :
         app' = StepAdvise(app, env, infer)
    /\ UNCHANGED others

Return ==
    /\ app.pc = "return"
    /\ app' = StepReturn(app)
    /\ UNCHANGED others

Next ==
    \/ Construct
    \/ CheckLocation
    \/ FetchHourly
    \/ FetchSubHourly
    \/ Advise
    \/ Return

Spec == Init /\ [][Next]_vars

----------------------------------------------------------------------------
(* Properties of one object's run *)

Kinds(lines) == [i \in 1..Len(lines) |-> lines[i].kind]

AdviceCalled == \E i \in 1..Len(app.calls) : app.calls[i].fn = "get_advice"

\* a credential is configured when either variable holds a non-empty value
Credential(env) ==
    \E v \in {env.HF_TOKEN, env.HUGGING_FACE_HUB_TOKEN} : ~IsNone(v) /\ Val(v) # ""

\* C1: get_ai_agri_advice never raises and, once it has returned, the result
\* is a non-empty list of display lines, whatever the providers did.
C1_AlwaysDisplays ==
    /\ app.pc # "raised"
    /\ app.pc = "done" =>
         /\ Len(app.result) >= 1
         /\ \A i \in 1..Len(app.result) :
              app.result[i].kind = "advice" => app.result[i].text # <<>>

\* a run in which the sub-hourly fetch failed and the inference call raised
C1_Witness ==
    /\ app.pc = "done"
    /\ ~IsNone(app.metrics)
    /\ IsNone(Val(app.metrics).rain_next_hour_mm)
    /\ app.infer.kind = "raise"
    /\ Len(app.result) = 1

\* C2: the three advisory outcomes stay distinguishable: no credential gives
\* (None, None) and the setup hint; a credential and a raising call, whatever
\* its error text, gives the 'AI advice unavailable' line and never the hint;
\* an empty or unparseable reply gives a dedicated no-usable-content message.
C2_OutcomesDistinguishable ==
    (app.pc = "done" /\ AdviceCalled) =>
      /\ ~Credential(app.env) =>
           /\ IsNone(app.advice) /\ IsNone(app.api_error)
           /\ Kinds(app.result) = <<"set_token_hint">>
      /\ (Credential(app.env) /\ app.infer.kind = "raise") =>
           /\ ~IsNone(app.api_error)
           /\ Kinds(app.result) = <<"ai_unavailable">>
      /\ (Credential(app.env) /\ app.infer.kind = "ok"
            /\ (IsNone(app.infer.content)
                  \/ \A k \in 1..Len(Val(app.infer.content)) :
                       Val(app.infer.content)[k] \in BulletClass)) =>
           /\ ~IsNone(app.api_error)
           /\ Val(app.api_error) \in {"Model returned empty response",
                                      "Model returned no parseable advice"}
           /\ Kinds(app.result) = <<"ai_unavailable">>

\* C5: with no soil-moisture series in the response the fetch succeeds, the
\* metrics carry min soil as unknown (not the measured value 0.0), and the
\* prompt shows 0.00.
C5_SoilAbsentUnknown ==
    (app.resp.ok /\ Len(app.resp.names) >= 1
       /\ \A i \in 1..Len(app.resp.names) :
            app.resp.names[i] # "soil_moisture_3_to_9cm") =>
      /\ app.pc \in {"sub", "advise", "return", "done"}
      /\ app.pc = "done" => ~IsNone(app.metrics)
      /\ ~IsNone(app.metrics) => Val(app.metrics).min_soil # 0
      /\ ~IsNone(app.prompt) => Val(app.prompt).min_soil = Fmt2(0)

\* C6: construction from explicit numbers checks latitude in [-90, 90] and
\* longitude in [-180, 180], stores them unchanged and never calls geocode.
C6_ExplicitValidated ==
    app.via = "explicit" =>
      /\ app.lat = app.given.latitude /\ app.lon = app.given.longitude
      /\ Val(app.lat) >= -9000 /\ Val(app.lat) <= 9000
      /\ Val(app.lon) >= -18000 /\ Val(app.lon) <= 18000
      /\ \A i \in 1..Len(app.calls) : app.calls[i].fn # "geocode"

\* C7: the rule-based strategy gives, for avg 33, min soil 0.10 and rain 12,
\* exactly the heat, irrigation and flood lines in that order, and for avg
\* 20, min soil 0.5 and rain 2 exactly the single 'stable conditions' line.
C7_RuleBasedLines ==
    (app.pc = "done" /\ ~IsNone(app.metrics)) =>
      LET m == Val(app.metrics) IN
      /\ (m.avg_temp.num = 3300 * m.avg_temp.den /\ m.min_soil = 10
            /\ m.total_rain = 1200) =>
           Kinds(app.result) = <<"heat", "irrigation", "flood">>
      /\ (m.avg_temp.num = 2000 * m.avg_temp.den /\ m.min_soil = 50
            /\ m.total_rain = 200) =>
           Kinds(app.result) = <<"stable_conditions">>

MetricFields ==
    {"avg_temp", "min_temp", "max_temp", "total_rain", "min_soil", "rain_next_hour_mm"}

\* C10: get_advice is invoked only after fetch_forecast_metrics has returned
\* a record with all six fields, and is handed that record; with missing
\* coordinates or a failed fetch it is never invoked.
C10_MetricsBeforeAdvice ==
    /\ app.pc \in {"advise", "return"} =>
         ~IsNone(app.metrics) /\ DOMAIN Val(app.metrics) = MetricFields
    /\ \A i \in 1..Len(app.calls) :
         app.calls[i].fn = "get_advice" =>
           /\ \E j \in 1..(i - 1) : app.calls[j].fn = "fetch_forecast_metrics"
           /\ ~IsNone(app.calls[i].metrics)
           /\ DOMAIN Val(app.calls[i].metrics) = MetricFields
           /\ app.calls[i].metrics = app.metrics
    /\ (IsNone(app.lat) \/ IsNone(app.metrics)) => ~AdviceCalled

\* a finished run in which get_advice was invoked
C10_Witness ==
    /\ app.pc = "done"
    /\ AdviceCalled
    /\ ~IsNone(Val(app.metrics).rain_next_hour_mm)

----------------------------------------------------------------------------
(* Reply parsing on its own: every reply up to MaxReplyLen characters *)

\* "Irrigate" and "now" stand for their letters
IrrigateNow == <<"Irrigate", " ", "now">>
ExampleReplies ==
    { <<"1", ")", " ">> \o IrrigateNow,
      <<"-", " ">> \o IrrigateNow,
      <<"BULLET", " ">> \o IrrigateNow,
      <<"1", ")", " ">> \o IrrigateNow \o <<"\n", "-", " ", "now", "\n", "\n">>
        \o <<"BULLET", " ", "Irrigate">> }

InitParse ==
    /\ app = NewApp
    /\ appA = NewApp
    /\ appB = NewApp
    /\ reply \in SeqsUpTo(Alphabet, MaxReplyLen) \cup ExampleReplies
    /\ parse_pc = "in"
    /\ parsed = AdviceResult(None, None, None)
    /\ bulk = IdleBulk

\* advice.py lines 48-61 applied to the reply
ParseReply ==
    /\ parse_pc = "in"
    /\ parsed' = ReplyOutcome(Some(reply), None)
    /\ parse_pc' = "out"
    /\ UNCHANGED <<app, appA, appB, reply, bulk>>

NextParse == ParseReply

SpecParse == InitParse /\ [][NextParse]_vars

\* the characters the claim lists: whitespace, dash, asterisk, bullet glyph,
\* digits, period, closing parenthesis
ClaimWhitespace == {" ", "\n"}
ClaimBulletChars ==
    ClaimWhitespace
      \cup {"-", "*", "BULLET", ".", ")", "0", "1", "2", "3", "4", "5", "6", "7", "8", "9"}

\* the lines of a text: the stretches between consecutive line breaks
RECURSIVE ClaimSegments(_)
ClaimSegments(t) ==
    IF \A i \in 1..Len(t) : t[i] # "\n" THEN <<t>>
    ELSE LET k == CHOOSE i \in 1..Len(t) :
                    t[i] = "\n" /\ \A j \in 1..(i - 1) : t[j] # "\n"
         IN  <<SubSeq(t, 1, k - 1)>> \o ClaimSegments(SubSeq(t, k + 1, Len(t)))

HasContent(seg) == \E i \in 1..Len(seg) : seg[i] \notin ClaimBulletChars

\* a line without its leading run of bullet characters and trailing blanks
ClaimNormal(seg) ==
    LET first == CHOOSE i \in 1..Len(seg) :
                   seg[i] \notin ClaimBulletChars
                     /\ \A j \in 1..(i - 1) : seg[j] \in ClaimBulletChars
        last == CHOOSE i \in 1..Len(seg) :
                  seg[i] \notin ClaimWhitespace
                    /\ \A j \in (i + 1)..Len(seg) : seg[j] \in ClaimWhitespace
    IN  SubSeq(seg, first, last)

ClaimParsed(t) ==
    LET segs == SelectSeq(ClaimSegments(t), HasContent)
    IN  [i \in 1..Len(segs) |-> ClaimNormal(segs[i])]

\* C8: the returned lines are, in order, the reply's lines that hold something
\* besides bullet characters, each without its maximal leading run of them;
\* none is empty or begins with one; '1) Irrigate now', '- Irrigate now' and
\* '(bullet) Irrigate now' all give 'Irrigate now'.
C8_BulletStripping ==
    parse_pc = "out" =>
      LET expected == ClaimParsed(reply) IN
      /\ expected # <<>> => parsed.advice = Some(expected)
      /\ expected = <<>> => IsNone(parsed.advice)
      /\ ~IsNone(parsed.advice) =>
           \A i \in 1..Len(Val(parsed.advice)) :
             /\ Val(parsed.advice)[i] # <<>>
             /\ Val(parsed.advice)[i][1] \notin ClaimBulletChars
      /\ (Len(reply) >= 3 /\ SubSeq(reply, Len(reply) - 2, Len(reply)) = IrrigateNow
            /\ \A k \in 1..(Len(reply) - 3) : reply[k] \in ClaimBulletChars) =>
           parsed.advice = Some(<<IrrigateNow>>)

\* '1) Irrigate now' parsed to the single line 'Irrigate now'
C8_Witness ==
    /\ parse_pc = "out"
    /\ reply = <<"1", ")", " ">> \o IrrigateNow
    /\ parsed.advice = Some(<<IrrigateNow>>)

----------------------------------------------------------------------------
(* outbound.py: SMSClient.send_bulk *)

Recipients == {"+254700000001", "+254700000002"}

\* messages.create returns a message with a sid, or raises
SendOutcomes ==
    {[ok |-> TRUE, info |-> "SM01"], [ok |-> FALSE, info |-> "invalid number"]}

\* seconds, in hundredths, between sends
DelayVals == {0, 50}

Outcome(to, ok, info) == [to |-> to, ok |-> ok, info |-> info]

\* the loop body without its try: a failed send ends send_bulk
BulkStepNoCatch(b, sent) ==
    IF sent.ok
    THEN [b EXCEPT !.attempts = Append(@, b.numbers[b.i]),
                   !.results = Append(@, Outcome(b.numbers[b.i], TRUE, sent.info)),
                   !.slept = @ + 1, !.i = @ + 1]
    ELSE [b EXCEPT !.attempts = Append(@, b.numbers[b.i]), !.pc = "raised"]

\* lines 23-29: one iteration for recipient numbers[i]
BulkStep(b, sent) ==
    [b EXCEPT !.attempts = Append(@, b.numbers[b.i]),
              !.results = Append(@, Outcome(b.numbers[b.i], sent.ok, sent.info)),
              !.slept = @ + 1,
              !.i = @ + 1]

\* lines 29-30: the loop ends and the function falls off its end
BulkReturn(b) == [b EXCEPT !.pc = "returned", !.ret = None]

InitBulk ==
    /\ app = NewApp
    /\ appA = NewApp
    /\ appB = NewApp
    /\ reply = <<>>
    /\ parse_pc = "idle"
    /\ parsed = <<>>
    /\ \E numbers \in SeqsUpTo(Recipients, MaxRecipients), d \in DelayVals :
         bulk = [IdleBulk EXCEPT !.pc = "loop", !.numbers = numbers, !.i = 1,
                                 !.time_delay = d]

SendOne ==
    /\ bulk.pc = "loop"
    /\ bulk.i <= Len(bulk.numbers)
    /\ \E sent \in SendOutcomes : bulk' = BulkStep(bulk, sent)
    /\ UNCHANGED <<app, appA, appB, reply, parse_pc, parsed>>

FinishBulk ==
    /\ bulk.pc = "loop"
    /\ bulk.i > Len(bulk.numbers)
    /\ bulk' = BulkReturn(bulk)
    /\ UNCHANGED <<app, appA, appB, reply, parse_pc, parsed>>

NextBulk ==
    \/ SendOne
    \/ FinishBulk

SpecBulk == InitBulk /\ [][NextBulk]_vars

\* C3: send_bulk over N recipients returns N outcome records, one per
\* recipient in list order, each with the recipient, a success flag and the
\* message id or error text.
C3_ReturnsOutcomes ==
    bulk.pc = "returned" =>
      /\ ~IsNone(bulk.ret)
      /\ Len(Val(bulk.ret)) = Len(bulk.numbers)
      /\ \A k \in 1..Len(bulk.numbers) : Val(bulk.ret)[k].to = bulk.numbers[k]

\* C4: every recipient is attempted exactly once, in list order, one at a
\* time with the delay after each, whichever earlier sends raised, and
\* send_bulk does not raise.
C4_AllAttempted ==
    /\ bulk.pc # "raised"
    /\ bulk.pc \in {"loop", "returned"} =>
         /\ bulk.attempts = SubSeq(bulk.numbers, 1, bulk.i - 1)
         /\ Len(bulk.results) = Len(bulk.attempts)
         /\ bulk.slept = Len(bulk.attempts)
    /\ bulk.pc = "returned" => bulk.attempts = bulk.numbers

\* a finished send in which the first recipient failed and the second succeeded
C4_Witness ==
    /\ bulk.pc = "returned"
    /\ Len(bulk.numbers) >= 2
    /\ ~bulk.results[1].ok
    /\ bulk.results[2].ok
    /\ bulk.attempts = bulk.numbers

----------------------------------------------------------------------------
(* Two objects for the same point, one geocoded and one explicit, run in   *)
(* step against the same provider responses                                *)

InitPair ==
    /\ app = NewApp
    /\ appA = NewApp
    /\ appB = NewApp
    /\ reply = <<>>
    /\ parse_pc = "idle"
    /\ parsed = <<>>
    /\ bulk = IdleBulk

PairConstruct ==
    /\ appA.pc = "new"
    /\ \E geo \in GeoResponses, latitude \in LatitudeVals, cityB \in CityVals :
         LET a == Ctor(Some("Lodwar"), latitude, None, geo) IN
         /\ ~IsNone(a.lat) /\ ~IsNone(a.lon)
         /\ appA' = Constructed(a)
         /\ appB' = Constructed(Ctor(cityB, a.lat, a.lon, geo))
    /\ UNCHANGED <<app, reply, parse_pc, parsed, bulk>>

PairCheck ==
    /\ appA.pc = "call" /\ appB.pc = "call"
    /\ appA' = StepCheck(appA)
    /\ appB' = StepCheck(appB)
    /\ UNCHANGED <<app, reply, parse_pc, parsed, bulk>>

PairHourly ==
    /\ appA.pc = "fetch" /\ appB.pc = "fetch"
    /\ \E hourly \in HourlyResponses :
         /\ appA' = StepHourly(appA, hourly)
         /\ appB' = StepHourly(appB, hourly)
    /\ UNCHANGED <<app, reply, parse_pc, parsed, bulk>>

PairSubHourly ==
    /\ appA.pc = "sub" /\ appB.pc = "sub"
    /\ \E sub \in SubResponses :
         /\ appA' = StepSub(appA, sub)
         /\ appB' = StepSub(appB, sub)
    /\ UNCHANGED <<app, reply, parse_pc, parsed, bulk>>

PairAdvise ==
    /\ appA.pc = "advise" /\ appB.pc = "advise"
    /\ \E env \in Environments, infer \in InferOutcomes :
         /\ appA' = StepAdvise(appA, env, infer)
         /\ appB' = StepAdvise(appB, env, infer)
    /\ UNCHANGED <<app, reply, parse_pc, parsed, bulk>>

PairReturn ==
    /\ appA.pc = "return" /\ appB.pc = "return"
    /\ appA' = StepReturn(appA)
    /\ appB' = StepReturn(appB)
    /\ UNCHANGED <<app, reply, parse_pc, parsed, bulk>>

NextPair ==
    \/ PairConstruct
    \/ PairCheck
    \/ PairHourly
    \/ PairSubHourly
    \/ PairAdvise
    \/ PairReturn

SpecPair == InitPair /\ [][NextPair]_vars

CallsOf(g, fn) == SelectSeq(g.calls, LAMBDA c : c.fn = fn)

SameButLocation(p, q) ==
    /\ IsNone(p) = IsNone(q)
    /\ ~IsNone(p) => [Val(p) EXCEPT !.location = NoName] = [Val(q) EXCEPT !.location = NoName]

\* C9 as stated: same arguments to fetch_forecast_metrics, same metrics, and
\* nothing passed to get_advice depends on how the coordinates were obtained.
C9_NothingDepends ==
    /\ CallsOf(appA, "fetch_forecast_metrics") = CallsOf(appB, "fetch_forecast_metrics")
    /\ appA.metrics = appB.metrics
    /\ CallsOf(appA, "get_advice") = CallsOf(appB, "get_advice")

\* C9 amended: same arguments to fetch_forecast_metrics, same metrics, the same
\* metrics handed to get_advice, the same branches and the same returned
\* lines; only the location name handed to get_advice differs (the city name
\* against the formatted coordinates), and with it the prompt's location.
C9_SamePathButName ==
    /\ appA.pc = appB.pc
    /\ CallsOf(appA, "fetch_forecast_metrics") = CallsOf(appB, "fetch_forecast_metrics")
    /\ appA.metrics = appB.metrics
    /\ LET ca == CallsOf(appA, "get_advice")
           cb == CallsOf(appB, "get_advice")
       IN  /\ Len(ca) = Len(cb)
           /\ \A i \in 1..Len(ca) :
                /\ ca[i].metrics = cb[i].metrics
                /\ ca[i].name.kind = "city"
                /\ cb[i].name = CoordsName(Val(appA.lat), Val(appA.lon))
    /\ appA.advice = appB.advice
    /\ appA.api_error = appB.api_error
    /\ SameButLocation(appA.prompt, appB.prompt)
    /\ appA.result = appB.result

\* both runs finished with advice from the model
C9_Witness ==
    /\ appA.pc = "done" /\ appB.pc = "done"
    /\ appA.via = "city" /\ appB.via = "explicit"
    /\ appA.lat = appB.lat /\ appA.lon = appB.lon
    /\ ~IsNone(appA.advice)
    /\ appA.result = appB.result

----------------------------------------------------------------------------
(* fetch_forecast_metrics on its own: every hourly response against every  *)
(* sub-hourly response                                                     *)

InitFetch ==
    /\ \E latitude \in {Some(312), Some(9100)}, geo \in GeoResponses :
         app = StepCheck(Constructed(Ctor(None, latitude, Some(3560), geo)))
    /\ appA = NewApp
    /\ appB = NewApp
    /\ reply = <<>>
    /\ parse_pc = "idle"
    /\ parsed = <<>>
    /\ bulk = IdleBulk

\* weather.py lines 55-64, keeping what the sub-hourly request returned
FetchSubHourlyOf ==
    /\ app.pc = "sub"
    /\ \E sub \in SubResponses :
         app' = [StepSub(app, sub) EXCEPT
                   !.sub = [resp |-> sub, primary |-> app.locals]]
    /\ UNCHANGED others

NextFetch ==
    \/ FetchHourly
    \/ FetchSubHourlyOf

SpecFetch == InitFetch /\ [][NextFetch]_vars

\* the sub-hourly fetch failed: the request raised, the payload has no
\* minutely_15 block or no precipitation array, there are fewer than 4
\* samples, or one of the four samples to be summed is not a number
SubFailed(sub) ==
    \/ sub.kind \in {"raise", "no_block", "no_series"}
    \/ Len(sub.precipitation) < 4
    \/ \E i \in 1..4 : sub.precipitation[i] = None

PrimaryOk == app.resp.ok /\ Len(app.resp.names) >= 1

\* C11: whenever the hourly fetch succeeded, fetch_forecast_metrics returns a
\* metrics record whatever the sub-hourly fetch did; a failed sub-hourly fetch
\* makes rain_next_hour_mm None; the other five fields are the ones derived
\* from the hourly response, whatever the sub-hourly response was.
C11_SubHourlyOptional ==
    /\ app.pc # "raised"
    /\ (PrimaryOk /\ app.pc \notin {"sub", "fetch"}) =>
         /\ app.pc = "advise"
         /\ ~IsNone(app.metrics)
         /\ app.sub.resp.kind # "none"
         /\ SubFailed(app.sub.resp) => IsNone(Val(app.metrics).rain_next_hour_mm)
         /\ \A f \in MetricFields \ {"rain_next_hour_mm"} :
              Val(app.metrics)[f] = Val(app.sub.primary)[f]

\* the hourly fetch succeeded and the sub-hourly request raised
C11_Witness ==
    /\ app.pc = "advise"
    /\ PrimaryOk
    /\ app.sub.resp.kind = "raise"
    /\ IsNone(Val(app.metrics).rain_next_hour_mm)
    /\ Val(app.metrics).total_rain = 1200

\* C12: whenever the model-based path succeeds, the returned advisory is a
\* sequence of between 3 and 5 lines, whatever the reply text was.
C12_ThreeToFiveLines ==
    (app.pc = "done" /\ ~IsNone(app.advice)) =>
      /\ Len(Val(app.advice)) >= 3 /\ Len(Val(app.advice)) <= 5
      /\ Len(app.result) >= 3 /\ Len(app.result) <= 5

====
